---- MODULE Spec2Model ----
(***************************************************************************)
(* LTrail dashboard: the adaptive trace poller (useTracePolling.jsx), the  *)
(* flow graph builder of the trace viewer (TraceViewer.jsx), and the       *)
(* dashboard shell with its trace list (App.jsx, TraceList.jsx).           *)
(*                                                                         *)
(* Spec          : the poller hook on its own                              *)
(* SpecLive      : the poller mounted enabled and never deactivated, with  *)
(*                 fairness of its timers and fetches                      *)
(* SpecBuilder   : the viewer receiving the response for a newly selected  *)
(*                 trace, and step selection                               *)
(* SpecViewer    : the viewer against a backend whose traces grow          *)
(* SpecApp       : App's own trace-list fetch loop                         *)
(* SpecDashboard : App together with the poller hook on one page           *)
(*                                                                         *)
(* Timer periods are kept multiplied by 3 (field period3), so that the     *)
(* value 10000 * (1 + c / 3) the hook passes to setInterval is an exact    *)
(* integer: period3 = 70000 stands for 23333.33.. ms.                      *)
(***************************************************************************)
EXTENDS Integers, Sequences, FiniteSets, Bags, TLC

\* ---------------------------------------------------------------- bounds
MaxCount == 1          \* rendered trace entries range over 0..MaxCount
MaxNoChange == 7       \* cap of the stability counter
MaxLeaked == 1         \* armed timers that no reference names
MaxInFlight == 2       \* polls awaiting their fetch at one time
MaxSteps == 3          \* longest step sequence of a trace
MaxFetches == 2        \* fetchTrace calls awaiting their response at one time
MaxTraces == 2         \* traces the backend lists
MaxAppStable == 4      \* cap of the history counter appStable

\* ------------------------------------------------------ program constants
FastInterval == 10000
MaxInterval == 30000
NoChangeThreshold == 3
AppInterval == 10000

VARIABLES
    mounted,               \* "init" | "mounted" | "unmounted": the component using the hook
    enabled,               \* the hook's enabled argument at the last render
    lastTraceCountRef,     \* lastTraceCountRef.current
    consecutiveNoChangeRef,\* consecutiveNoChangeRef.current
    intervalRef,           \* intervalRef.current: NoTimer or the timer it names
    leaked,                \* bag of armed timers no reference names any more
    inflight,              \* bag of polls suspended at await fetchTraces()
    traceId,               \* TraceViewer prop: traceId
    traceFetches,          \* fetchTrace calls awaiting their response
    trace,                 \* TraceViewer state: trace
    selectedStep,          \* TraceViewer state: selectedStep
    nodes,                 \* TraceViewer state: nodes
    edges,                 \* TraceViewer state: edges
    backend,               \* backend store: the steps of each trace
    listed,                \* backend store: the traces GET /api/traces lists
    traces,                \* App state: traces
    appInflight,           \* fetchTraces calls of App awaiting their response
    appStable,             \* consecutive completed fetches of App that left traces as it was (history)
    op                     \* the last operation that ran (history)

pollerVars == <<mounted, enabled, lastTraceCountRef, consecutiveNoChangeRef,
                intervalRef, leaked, inflight>>
viewerVars == <<traceId, traceFetches, trace, selectedStep, nodes, edges>>
hostVars == <<backend, listed, traces, appInflight, appStable>>
vars == <<pollerVars, viewerVars, hostVars, op>>

Min(a, b) == IF a <= b THEN a ELSE b

\* =====================================================================
\* Adaptive poller (useTracePolling)
\* =====================================================================
NoTimer == [period3 |-> 0, live |-> FALSE]

\* The timer setInterval(poll, period3 / 3) creates
Timer(p3) == [period3 |-> p3, live |-> TRUE]

\* useRef(0), useRef(null), useRef(0)
InitRefs ==
    /\ lastTraceCountRef = 0
    /\ intervalRef = NoTimer
    /\ consecutiveNoChangeRef = 0

\* The poller is active: the last effect run passed the enabled test and
\* its cleanup has not run.
Active == mounted = "mounted" /\ enabled

\* The timers that will still fire.
Armed == IF intervalRef.live THEN leaked (+) SetToBag({intervalRef}) ELSE leaked

\* newInterval3 with c / 3 taken as an integer division
newInterval3_intDiv(c) == Min(3 * MaxInterval, 3 * (FastInterval * (1 + (c \div 3))))

\* newInterval3 without the Math.min ceiling
newInterval3_noCeiling(c) == FastInterval * (3 + c)

\* Math.min(30000, 10000 * (1 + c / 3)), times 3
newInterval3(c) == Min(3 * MaxInterval, FastInterval * (3 + c))

\* clearInterval(intervalRef.current): the timer is cancelled, the ref keeps its id
Cleared(ref) == [ref EXCEPT !.live = FALSE]

\* poll, up to the await: reads lastTraceCountRef and calls fetchTraces()
PollStarted == inflight (+) SetToBag({[prev |-> lastTraceCountRef]})

\* The effect's cleanup, when the effect run that is being replaced had
\* returned one (enabled was true).
AfterCleanup(ref, wasEnabled) ==
    IF wasEnabled /\ ref # NoTimer THEN Cleared(ref) ELSE ref

\* Effect without the initial poll() of line 46
Effect_noInitialPoll(e, ref) ==
    IF ~e
    THEN /\ intervalRef' = ref
         /\ UNCHANGED <<leaked, inflight>>
    ELSE /\ ref.live => BagCardinality(leaked) < MaxLeaked
         /\ inflight' = inflight
         /\ intervalRef' = Timer(3 * FastInterval)
         /\ leaked' = IF ref.live THEN leaked (+) SetToBag({ref}) ELSE leaked

\* The effect body run with enabled = e, after the cleanup of the previous run
\* left the ref as `ref`. A timer the ref named and that is still armed when
\* the ref is overwritten keeps firing.
Effect(e, ref) ==
    IF ~e
    THEN /\ intervalRef' = ref
         /\ UNCHANGED <<leaked, inflight>>
    ELSE /\ BagCardinality(inflight) < MaxInFlight
         /\ ref.live => BagCardinality(leaked) < MaxLeaked
         /\ inflight' = PollStarted
         /\ intervalRef' = Timer(3 * FastInterval)
         /\ leaked' = IF ref.live THEN leaked (+) SetToBag({ref}) ELSE leaked

\* selectedStep of a viewer in which no step is selected: useState(null)
NoStep == -1

\* name: the operation; changed: whether a completed poll measured a count
\* other than its previousCount; from: the period3 of intervalRef.current when
\* the operation began; active: whether the poller was active when it began.
OpRec(name, changed, from) ==
    [name |-> name, changed |-> changed, from |-> from, active |-> Active,
     sel |-> NoStep]

\* The last operation was one of the trace viewer; sel is the selectedStep of
\* the render whose updateFlow built the graph on display.
ViewerOp(name, sel) ==
    [name |-> name, changed |-> FALSE, from |-> 0, active |-> FALSE, sel |-> sel]

\* First render of the component.
Mount(e) ==
    /\ mounted = "init"
    /\ mounted' = "mounted"
    /\ enabled' = e
    /\ Effect(e, intervalRef)
    /\ op' = OpRec("Mount", FALSE, 0)
    /\ UNCHANGED <<lastTraceCountRef, consecutiveNoChangeRef, viewerVars, hostVars>>

\* A render with the enabled argument flipped: cleanup, then the effect.
SetEnabled ==
    /\ mounted = "mounted"
    /\ enabled' = ~enabled
    /\ Effect(~enabled, AfterCleanup(intervalRef, enabled))
    /\ op' = OpRec("SetEnabled", FALSE, 0)
    /\ UNCHANGED <<mounted, lastTraceCountRef, consecutiveNoChangeRef, viewerVars, hostVars>>

\* A render with another fetchTraces function: cleanup, then the effect.
ChangeFetchTraces ==
    /\ mounted = "mounted"
    /\ enabled
    /\ Effect(enabled, AfterCleanup(intervalRef, enabled))
    /\ op' = OpRec("ChangeFetchTraces", FALSE, 0)
    /\ UNCHANGED <<mounted, enabled, lastTraceCountRef, consecutiveNoChangeRef, viewerVars, hostVars>>

Unmount ==
    /\ mounted = "mounted"
    /\ mounted' = "unmounted"
    /\ intervalRef' = AfterCleanup(intervalRef, enabled)
    /\ op' = OpRec("Unmount", FALSE, 0)
    /\ UNCHANGED <<enabled, lastTraceCountRef, consecutiveNoChangeRef, leaked, inflight,
                   viewerVars, hostVars>>

\* An armed timer fires and calls poll.
Tick(t) ==
    /\ BagIn(t, Armed)
    /\ BagCardinality(inflight) < MaxInFlight
    /\ inflight' = PollStarted
    /\ op' = OpRec("Tick", FALSE, t.period3)
    /\ UNCHANGED <<mounted, enabled, lastTraceCountRef, consecutiveNoChangeRef,
                   intervalRef, leaked, viewerVars, hostVars>>

\* RefAfterNoChange without the re-arming of lines 26-31
RefAfterNoChange_neverSlows(c) == intervalRef

\* The ref after the no-change branch, the counter already incremented to c.
RefAfterNoChange(c) ==
    IF c > NoChangeThreshold /\ intervalRef # NoTimer
    THEN Timer(newInterval3(c))
    ELSE intervalRef

\* RefAfterChange without the re-arming of lines 36-39
RefAfterChange_keepsTimer == intervalRef

\* The ref after the change branch.
RefAfterChange ==
    IF intervalRef # NoTimer THEN Timer(3 * FastInterval) ELSE intervalRef

\* Poll p runs from the await to its end (lines 19-42) with currentCount
\* measured at line 21.
PollCompletes(p, currentCount) ==
    /\ BagIn(p, inflight)
    /\ inflight' = inflight (-) SetToBag({p})
    /\ IF currentCount = p.prev
       THEN /\ consecutiveNoChangeRef < MaxNoChange
            /\ consecutiveNoChangeRef' = consecutiveNoChangeRef + 1
            /\ intervalRef' = RefAfterNoChange(consecutiveNoChangeRef + 1)
       ELSE /\ consecutiveNoChangeRef' = 0
            /\ intervalRef' = RefAfterChange
    /\ lastTraceCountRef' = currentCount
    /\ op' = OpRec("FetchResolve", currentCount # p.prev, intervalRef.period3)
    /\ UNCHANGED <<mounted, enabled, leaked>>

\* fetchTraces() resolved: poll p runs from the await to its end;
\* currentCount is what document.querySelectorAll('[data-trace-id]').length gives.
FetchResolve(p, currentCount) ==
    /\ PollCompletes(p, currentCount)
    /\ UNCHANGED <<viewerVars, hostVars>>

\* FetchReject with the failed poll counted as a poll without change
FetchReject_countsNoChange(p) ==
    /\ BagIn(p, inflight)
    /\ inflight' = inflight (-) SetToBag({p})
    /\ consecutiveNoChangeRef' = Min(consecutiveNoChangeRef + 1, MaxNoChange)
    /\ op' = OpRec("FetchReject", FALSE, intervalRef.period3)
    /\ UNCHANGED <<mounted, enabled, lastTraceCountRef, intervalRef, leaked,
                   viewerVars, hostVars>>

\* FetchReject with the rejection also cancelling the timer
FetchReject_stopsTimer(p) ==
    /\ BagIn(p, inflight)
    /\ inflight' = inflight (-) SetToBag({p})
    /\ intervalRef' = Cleared(intervalRef)
    /\ op' = OpRec("FetchReject", FALSE, intervalRef.period3)
    /\ UNCHANGED <<mounted, enabled, lastTraceCountRef, consecutiveNoChangeRef,
                   leaked, viewerVars, hostVars>>

\* fetchTraces() rejected: the await throws and poll p ends there.
FetchReject(p) ==
    /\ BagIn(p, inflight)
    /\ inflight' = inflight (-) SetToBag({p})
    /\ op' = OpRec("FetchReject", FALSE, intervalRef.period3)
    /\ UNCHANGED <<mounted, enabled, lastTraceCountRef, consecutiveNoChangeRef,
                   intervalRef, leaked, viewerVars, hostVars>>

\* =====================================================================
\* Flow graph builder (TraceViewer)
\* =====================================================================
NoTrace == [loaded |-> FALSE]      \* useState(null)
NoTraceId == "none"

\* Step status values a backend sends; a step may also carry no status.
Statuses == {"success", "error", "warning", "partial", "Error", "unknown-garbage"}

StepRecords ==
    [name : {"A"}, step_type : {"logic"}, status : Statuses]
        \cup [name : {"A"}, step_type : {"logic"}]

RECURSIVE SeqsUpTo(_, _)
SeqsUpTo(S, n) ==
    IF n = 0 THEN {<<>>}
    ELSE LET shorter == SeqsUpTo(S, n - 1)
         IN shorter \cup {Append(q, x) : q \in {r \in shorter : Len(r) = n - 1}, x \in S}

\* The bodies GET /api/traces/{id} can answer with: steps present or absent.
Responses(id) ==
    {[loaded |-> TRUE, trace_id |-> id, steps |-> q] : q \in SeqsUpTo(StepRecords, MaxSteps)}
        \cup {[loaded |-> TRUE, trace_id |-> id]}

\* data.steps || []
StepsOrEmpty(data) == IF "steps" \in DOMAIN data THEN data.steps ELSE <<>>

\* step.status || 'success'
StatusOf(step) ==
    IF "status" \in DOMAIN step /\ step.status # "" THEN step.status ELSE "success"

\* NodeColor comparing the status without regard to case
NodeColor_ignoreCase(status) ==
    IF status \in {"error", "Error"} THEN "#ef4444"
    ELSE IF status = "warning" THEN "#f59e0b"
    ELSE IF status = "partial" THEN "#3b82f6"
    ELSE "#10b981"

\* let nodeColor = '#10b981'; if (status === 'error') ... (lines 40-43)
NodeColor(status) ==
    IF status = "error" THEN "#ef4444"
    ELSE IF status = "warning" THEN "#f59e0b"
    ELSE IF status = "partial" THEN "#3b82f6"
    ELSE "#10b981"

\* getNodeStyle tinting the background of the selected node as well
getNodeStyle_selectedBackground(status, nodeColor, isSelected) ==
    [background |-> "linear-gradient(135deg, "
                        \o (IF isSelected THEN "#818cf8" ELSE nodeColor) \o "15 0%, "
                        \o nodeColor \o "08 100%)",
     borderRadius |-> "8px",
     border |-> "1.5px solid " \o (IF isSelected THEN "#818cf8" ELSE nodeColor \o "40"),
     padding |-> "10px 12px",
     minWidth |-> "140px",
     maxWidth |-> "180px",
     color |-> "#e5e7eb",
     cursor |-> "grab",
     fontSize |-> "11px",
     fontWeight |-> 500,
     boxShadow |-> IF isSelected THEN "0 4px 12px rgba(129, 140, 248, 0.2)"
                   ELSE "0 2px 8px rgba(0, 0, 0, 0.3)"]

getNodeStyle(status, nodeColor, isSelected) ==
    [background |-> "linear-gradient(135deg, " \o nodeColor \o "15 0%, "
                        \o nodeColor \o "08 100%)",
     borderRadius |-> "8px",
     border |-> "1.5px solid " \o (IF isSelected THEN "#818cf8" ELSE nodeColor \o "40"),
     padding |-> "10px 12px",
     minWidth |-> "140px",
     maxWidth |-> "180px",
     color |-> "#e5e7eb",
     cursor |-> "grab",
     fontSize |-> "11px",
     fontWeight |-> 500,
     boxShadow |-> IF isSelected THEN "0 4px 12px rgba(129, 140, 248, 0.2)"
                   ELSE "0 2px 8px rgba(0, 0, 0, 0.3)"]

\* `step-${index}`
StepId(index) == "step-" \o ToString(index)

\* `edge-${index}`
EdgeId(index) == "edge-" \o ToString(index)

\* Node taking the selected index as a 1-based position
Node_selectedByPosition(steps, index, sel) ==
    LET step == steps[index + 1]
        status == StatusOf(step)
    IN [id |-> StepId(index),
        position |-> [x |-> 250, y |-> index * 100 + 50],
        data |-> [label |-> [name |-> step.name, step_type |-> step.step_type]],
        style |-> getNodeStyle(status, NodeColor(status), sel = index + 1),
        draggable |-> TRUE]

\* The node pushed for steps[index] (0-based index), lines 45-62
Node(steps, index, sel) ==
    LET step == steps[index + 1]
        status == StatusOf(step)
    IN [id |-> StepId(index),
        position |-> [x |-> 250, y |-> index * 100 + 50],
        data |-> [label |-> [name |-> step.name, step_type |-> step.step_type]],
        style |-> getNodeStyle(status, NodeColor(status), sel = index),
        draggable |-> TRUE]

\* Edge with the source's status color
Edge_sourceColor(steps, index) ==
    LET nodeColor == NodeColor(StatusOf(steps[index]))
    IN [id |-> EdgeId(index),
        source |-> StepId(index - 1),
        target |-> StepId(index),
        type |-> "smoothstep",
        style |-> [stroke |-> nodeColor \o "60", strokeWidth |-> 2],
        markerEnd |-> [type |-> "arrowclosed", width |-> 18, height |-> 18,
                       color |-> nodeColor \o "60"]]

\* Edge leaving the step it enters
Edge_fromSelf(steps, index) ==
    LET nodeColor == NodeColor(StatusOf(steps[index + 1]))
    IN [id |-> EdgeId(index),
        source |-> StepId(index),
        target |-> StepId(index),
        type |-> "smoothstep",
        style |-> [stroke |-> nodeColor \o "60", strokeWidth |-> 2],
        markerEnd |-> [type |-> "arrowclosed", width |-> 18, height |-> 18,
                       color |-> nodeColor \o "60"]]

\* The edge pushed for steps[index], index > 0, lines 65-77
Edge(steps, index) ==
    LET nodeColor == NodeColor(StatusOf(steps[index + 1]))
    IN [id |-> EdgeId(index),
        source |-> StepId(index - 1),
        target |-> StepId(index),
        type |-> "smoothstep",
        style |-> [stroke |-> nodeColor \o "60", strokeWidth |-> 2],
        markerEnd |-> [type |-> "arrowclosed", width |-> 18, height |-> 18,
                       color |-> nodeColor \o "60"]]

\* steps.forEach((step, index) => ...) from `index` on, pushing onto acc
RECURSIVE forEachStep(_, _, _, _)
forEachStep(steps, sel, index, acc) ==
    IF index >= Len(steps) THEN acc
    ELSE forEachStep(steps, sel, index + 1,
            [newNodes |-> Append(acc.newNodes, Node(steps, index, sel)),
             newEdges |-> IF index > 0
                          THEN Append(acc.newEdges, Edge(steps, index))
                          ELSE acc.newEdges])

\* updateFlow(steps) run in a render whose selectedStep is sel
updateFlow(steps, sel) ==
    forEachStep(steps, sel, 0, [newNodes |-> <<>>, newEdges |-> <<>>])

\* step.status as the step list reads it: undefined when the step has none
\* (used as a key of the colors object it is the property name "undefined")
RawStatus(step) == IF "status" \in DOMAIN step THEN step.status ELSE "undefined"

\* const colors = {...} of getStatusBadge, lines 108-113
BadgeColors ==
    [success |-> "bg-emerald-500/20 text-emerald-400 border-emerald-500/30",
     error |-> "bg-red-500/20 text-red-400 border-red-500/30",
     warning |-> "bg-amber-500/20 text-amber-400 border-amber-500/30",
     partial |-> "bg-blue-500/20 text-blue-400 border-blue-500/30"]

\* The className of the <span> getStatusBadge(status) returns, lines 114-118
getStatusBadge(status) ==
    "px-2 py-0.5 rounded-md text-[10px] font-medium border "
        \o (IF status \in DOMAIN BadgeColors /\ BadgeColors[status] # ""
            THEN BadgeColors[status]
            ELSE "bg-gray-500/20 text-gray-400 border-gray-500/30")

\* The badges of the step list: trace.steps.map(... getStatusBadge(step.status))
StepListBadges(tr) ==
    IF tr # NoTrace /\ "steps" \in DOMAIN tr
    THEN [i \in 1..Len(tr.steps) |-> getStatusBadge(RawStatus(tr.steps[i]))]
    ELSE <<>>

\* fetchTrace() up to its await, in a render with selectedStep = sel; data is
\* the body the backend will answer with.
TraceFetch(id, sel, data) == [traceId |-> id, sel |-> sel, data |-> data]

\* The response arrived: setTrace(data); updateFlow(data.steps || [])
FetchTraceResolve(f) ==
    /\ f \in traceFetches
    /\ traceFetches' = traceFetches \ {f}
    /\ trace' = f.data
    /\ LET g == updateFlow(StepsOrEmpty(f.data), f.sel)
       IN /\ nodes' = g.newNodes
          /\ edges' = g.newEdges
    /\ op' = ViewerOp("FetchTraceResolve", f.sel)
    /\ UNCHANGED <<traceId, selectedStep, pollerVars, hostVars>>

\* fetch or res.json() threw: the catch logs it
FetchTraceReject(f) ==
    /\ f \in traceFetches
    /\ traceFetches' = traceFetches \ {f}
    /\ op' = ViewerOp("FetchTraceReject", op.sel)
    /\ UNCHANGED <<traceId, trace, selectedStep, nodes, edges, pollerVars, hostVars>>

\* setSelectedStep(index) with another index, then the [selectedStep] effect:
\* if (trace && trace.steps) updateFlow(trace.steps)
SelectStep(index) ==
    /\ index # selectedStep
    /\ selectedStep' = index
    /\ IF trace # NoTrace /\ "steps" \in DOMAIN trace
       THEN LET g == updateFlow(trace.steps, index)
            IN /\ nodes' = g.newNodes
               /\ edges' = g.newEdges
       ELSE UNCHANGED <<nodes, edges>>
    /\ op' = ViewerOp("SelectStep", index)
    /\ UNCHANGED <<traceId, traceFetches, trace, pollerVars, hostVars>>

\* parseInt(node.id.split('-')[1])
ParseStepIndex(id) == CHOOSE k \in 0..(MaxSteps + 1) : StepId(k) = id

\* A click on a step card of the side list (trace.steps.map, onClick)
ClickStepCard(index) ==
    /\ trace # NoTrace
    /\ index \in 0..(Len(StepsOrEmpty(trace)) - 1)
    /\ SelectStep(index)

\* A click on a node of the flow canvas (onNodeClick)
ClickNode(n) ==
    /\ trace # NoTrace
    /\ n \in 1..Len(nodes)
    /\ SelectStep(ParseStepIndex(nodes[n].id))

\* The identifiers of the traces the viewer is pointed at
TraceIds == {"t1", "t2"}

\* No dashboard on the page, nothing stored
HostIdle ==
    /\ backend = [id \in TraceIds |-> <<>>]
    /\ listed = <<>>
    /\ traces = <<>>
    /\ appInflight = 0
    /\ appStable = 0

PollerInit ==
    /\ mounted = "init"
    /\ enabled = FALSE
    /\ InitRefs
    /\ leaked = EmptyBag
    /\ inflight = EmptyBag

ViewerUnmounted ==
    /\ traceId = NoTraceId
    /\ traceFetches = {}
    /\ trace = NoTrace
    /\ selectedStep = NoStep
    /\ nodes = <<>>
    /\ edges = <<>>

Init ==
    /\ PollerInit
    /\ ViewerUnmounted
    /\ HostIdle
    /\ op = ViewerOp("Init", NoStep)

Next ==
    \/ \E e \in BOOLEAN : Mount(e)
    \/ SetEnabled
    \/ ChangeFetchTraces
    \/ Unmount
    \/ \E t \in BagToSet(Armed) : Tick(t)
    \/ \E p \in BagToSet(inflight), n \in 0..MaxCount : FetchResolve(p, n)
    \/ \E p \in BagToSet(inflight) : FetchReject(p)

Spec == Init /\ [][Next]_vars

\* The poller mounted with enabled = true and left active: its timers fire,
\* and its fetches settle.
TimerFires == \E t \in BagToSet(Armed) : Tick(t)

\* fetchTraces() resolved and poll p measures its previousCount again while
\* the stability counter stands at MaxNoChange. The counter is not tracked
\* beyond MaxNoChange; the timer is the one the code arms for the next value.
FetchResolveAtCap(p) ==
    /\ BagIn(p, inflight)
    /\ consecutiveNoChangeRef = MaxNoChange
    /\ inflight' = inflight (-) SetToBag({p})
    /\ intervalRef' = RefAfterNoChange(consecutiveNoChangeRef + 1)
    /\ lastTraceCountRef' = p.prev
    /\ op' = OpRec("FetchResolve", FALSE, intervalRef.period3)
    /\ UNCHANGED <<mounted, enabled, consecutiveNoChangeRef, leaked, viewerVars, hostVars>>

\* A poll's fetch resolves and the poll runs to its end.
PollFinishes ==
    \E p \in BagToSet(inflight) :
        \/ \E n \in 0..MaxCount : FetchResolve(p, n)
        \/ FetchResolveAtCap(p)

NextLive ==
    \/ Mount(TRUE)
    \/ TimerFires
    \/ PollFinishes
    \/ \E p \in BagToSet(inflight) : FetchReject(p)

\* The component mounts, an armed interval timer keeps firing, and fetches
\* keep completing (a fetch may fail, but not every fetch from some time on).
SpecLive ==
    /\ Init
    /\ [][NextLive]_vars
    /\ WF_vars(Mount(TRUE))
    /\ WF_vars(TimerFires)
    /\ SF_vars(PollFinishes)

\* The trace the viewer showed before the dashboard selected trace "t1":
\* MaxSteps steps without a status.
OldTrace ==
    [loaded |-> TRUE, trace_id |-> "t0",
     steps |-> [i \in 1..MaxSteps |-> [name |-> "A", step_type |-> "logic"]]]

\* The trace viewer (rendered unkeyed by App, so its state survives a change
\* of traceId) shows trace "t0" with no step or its last step selected; the
\* dashboard has just selected trace "t1": the [traceId] effect has called
\* fetchTrace() of that render, and the backend will answer with some body.
InitBuilder ==
    /\ PollerInit
    /\ HostIdle
    /\ traceId = "t1"
    /\ trace = OldTrace
    /\ selectedStep \in {NoStep, MaxSteps - 1}
    /\ \E d \in Responses("t1") : traceFetches = {TraceFetch("t1", selectedStep, d)}
    /\ LET g == updateFlow(OldTrace.steps, selectedStep)
       IN /\ nodes = g.newNodes
          /\ edges = g.newEdges
    /\ op = ViewerOp("Init", selectedStep)

NextBuilder ==
    \/ \E f \in traceFetches : FetchTraceResolve(f)
    \/ \E f \in traceFetches : FetchTraceReject(f)
    \/ \E i \in 0..(MaxSteps - 1) : ClickStepCard(i)
    \/ \E n \in 1..MaxSteps : ClickNode(n)

SpecBuilder == InitBuilder /\ [][NextBuilder]_vars

\* =====================================================================
\* Trace viewer against a backend whose traces grow
\* =====================================================================

\* The step a POST /api/traces/{trace_id}/steps of the SDK adds
NewStep == [name |-> "A", step_type |-> "logic", status |-> "success"]

\* The body GET /api/traces/{id} answers with when the trace has these steps
TraceBody(id, steps) == [loaded |-> TRUE, trace_id |-> id, steps |-> steps]

\* A click on an entry of the trace list: onSelectTrace(id) sets
\* selectedTraceId, App renders <TraceViewer traceId={id} /> (mounting it the
\* first time), and the [traceId] effect calls fetchTrace().
SelectTrace(id) ==
    /\ id # traceId
    /\ Cardinality(traceFetches) < MaxFetches
    /\ traceId' = id
    /\ traceFetches' =
           traceFetches \cup {TraceFetch(id, selectedStep, TraceBody(id, backend[id]))}
    /\ op' = ViewerOp("SelectTrace", op.sel)
    /\ UNCHANGED <<trace, selectedStep, nodes, edges, pollerVars, hostVars>>

\* The backend stores one more step of trace id. A fetchTrace of that trace
\* whose request the backend has not served yet (served = FALSE) will be
\* answered with the new step sequence.
AppendStep(id, served) ==
    /\ Len(backend[id]) < MaxSteps
    /\ backend' = [backend EXCEPT ![id] = Append(@, NewStep)]
    /\ traceFetches' =
           IF served THEN traceFetches
           ELSE {IF f.traceId = id
                 THEN [f EXCEPT !.data = TraceBody(id, Append(backend[id], NewStep))]
                 ELSE f : f \in traceFetches}
    /\ op' = ViewerOp("AppendStep", op.sel)
    /\ UNCHANGED <<traceId, trace, selectedStep, nodes, edges, pollerVars,
                   listed, traces, appInflight, appStable>>

\* A fetchTrace call settles: its response arrives or it throws.
FetchSettles ==
    \E f \in traceFetches : FetchTraceResolve(f) \/ FetchTraceReject(f)

\* The dashboard before a trace is selected; each stored trace has one step.
InitViewer ==
    /\ PollerInit
    /\ ViewerUnmounted
    /\ backend = [id \in TraceIds |-> <<NewStep>>]
    /\ listed = <<>>
    /\ traces = <<>>
    /\ appInflight = 0
    /\ appStable = 0
    /\ op = ViewerOp("Init", NoStep)

NextViewer ==
    \/ \E id \in TraceIds : SelectTrace(id)
    \/ \E id \in TraceIds, served \in BOOLEAN : AppendStep(id, served)
    \/ \E f \in traceFetches : FetchTraceResolve(f)
    \/ \E f \in traceFetches : FetchTraceReject(f)
    \/ \E i \in 0..(MaxSteps - 1) : ClickStepCard(i)
    \/ \E n \in 1..MaxSteps : ClickNode(n)

\* Every fetch the browser started settles.
SpecViewer == InitViewer /\ [][NextViewer]_vars /\ WF_vars(FetchSettles)

\* =====================================================================
\* Dashboard (App and TraceList)
\* =====================================================================

\* An entry of the traces array GET /api/traces answers with
TraceSummary(k) == [trace_id |-> "t" \o ToString(k), name |-> "run", status |-> "completed"]

\* The <div> TraceList renders for a trace (lines 58-65): React keeps key to
\* itself and onClick as a listener, so the element carries a class attribute.
TraceListEntry(tr, selectedTraceId) ==
    [tag |-> "div",
     key |-> tr.trace_id,
     attributes |-> {"class"},
     class |-> "group relative mb-2 p-3 rounded-lg border cursor-pointer transition-all "
                 \o (IF selectedTraceId = tr.trace_id
                     THEN "bg-[#1a1a1a] border-indigo-500/50 shadow-lg shadow-indigo-500/10"
                     ELSE "bg-[#0f0f0f] border-[#1f1f1f] hover:bg-[#151515] hover:border-[#2a2a2a]")]

\* The elements TraceList renders under its list container: the "No traces
\* yet" panel for an empty array, else one entry per trace (traces.map).
TraceList(trs, selectedTraceId) ==
    IF Len(trs) = 0
    THEN <<[tag |-> "div", key |-> "", attributes |-> {"class"}, class |-> "p-8 text-center"]>>
    ELSE [i \in 1..Len(trs) |-> TraceListEntry(trs[i], selectedTraceId)]

\* document.querySelectorAll('[attr]') over the rendered elements
querySelectorAll(doc, attr) ==
    LET carries(el) == attr \in el.attributes
    IN SelectSeq(doc, carries)

\* document.querySelectorAll('[data-trace-id]')?.length || 0 with the trace
\* list showing trs
DomCount(trs) == Len(querySelectorAll(TraceList(trs, traceId), "data-trace-id"))

\* The last operation was one of App or of the backend.
HostOp(name, changed, from) ==
    [name |-> name, changed |-> changed, from |-> from, active |-> Active,
     sel |-> NoStep]

\* appStable after a fetch replaced traces by newTraces
StableAfter(newTraces) ==
    IF newTraces = traces THEN Min(appStable + 1, MaxAppStable) ELSE 0

\* The backend stores a new trace (POST /api/traces).
CreateTrace ==
    /\ Len(listed) < MaxTraces
    /\ listed' = Append(listed, TraceSummary(Len(listed) + 1))
    /\ op' = HostOp("CreateTrace", FALSE, 0)
    /\ UNCHANGED <<pollerVars, viewerVars, backend, traces, appInflight, appStable>>

\* The timer of App.jsx line 30 fires: fetchTraces() runs up to its await.
AppTick ==
    /\ appInflight < MaxInFlight
    /\ appInflight' = appInflight + 1
    /\ op' = HostOp("AppTick", FALSE, 3 * AppInterval)
    /\ UNCHANGED <<pollerVars, viewerVars, backend, listed, traces, appStable>>

\* A fetchTraces call of App got its response: setTraces(data.traces || []).
\* The timer stays as line 30 armed it.
AppFetchResolve ==
    /\ appInflight > 0
    /\ appInflight' = appInflight - 1
    /\ traces' = listed
    /\ appStable' = StableAfter(listed)
    /\ op' = HostOp("AppFetchResolve", listed # traces, 3 * AppInterval)
    /\ UNCHANGED <<pollerVars, viewerVars, backend, listed>>

\* A fetchTraces call of App failed: the catch of lines 21-25 swallows it.
AppFetchReject ==
    /\ appInflight > 0
    /\ appInflight' = appInflight - 1
    /\ op' = HostOp("AppFetchReject", FALSE, 3 * AppInterval)
    /\ UNCHANGED <<pollerVars, viewerVars, backend, listed, traces, appStable>>

\* App has mounted: its effect (lines 28-32) called fetchTraces() and armed
\* the 10000 ms timer; the backend lists some traces already.
InitApp ==
    /\ PollerInit
    /\ ViewerUnmounted
    /\ backend = [id \in TraceIds |-> <<>>]
    /\ \E n \in 0..MaxTraces : listed = [k \in 1..n |-> TraceSummary(k)]
    /\ traces = <<>>
    /\ appInflight = 1
    /\ appStable = 0
    /\ op = ViewerOp("Init", NoStep)

NextApp ==
    \/ CreateTrace
    \/ AppTick
    \/ AppFetchResolve
    \/ AppFetchReject

SpecApp == InitApp /\ [][NextApp]_vars

\* The hook used on the dashboard page with App's fetchTraces as its fetch
\* operation: the await of poll p ends. fetchTraces never rejects (it catches
\* its own errors): it either got a response and called setTraces (ok), or
\* failed and left traces alone. The count of line 21 is taken from the
\* document as rendered for the old or for the new traces array, React
\* committing a state update before or after the continuation of poll runs.
DashPollResolve(p, ok) ==
    LET newTraces == IF ok THEN listed ELSE traces
    IN /\ traces' = newTraces
       /\ appStable' = IF ok THEN StableAfter(listed) ELSE appStable
       /\ \E shown \in {traces, newTraces} : PollCompletes(p, DomCount(shown))
       /\ UNCHANGED <<viewerVars, backend, listed, appInflight>>

\* App (as above) and a component of the page calling
\* useTracePolling(fetchTraces, enabled). fetchTraces is a useCallback with no
\* dependencies (App.jsx lines 12-26), so its identity never changes.
NextDashboard ==
    \/ CreateTrace
    \/ AppTick
    \/ AppFetchResolve
    \/ AppFetchReject
    \/ \E e \in BOOLEAN : Mount(e)
    \/ SetEnabled
    \/ Unmount
    \/ \E t \in BagToSet(Armed) : Tick(t)
    \/ \E p \in BagToSet(inflight), ok \in BOOLEAN : DashPollResolve(p, ok)

SpecDashboard == InitApp /\ [][NextDashboard]_vars

\* =====================================================================
\* Properties of the adaptive poller (checked under Spec)
\* =====================================================================
ActivationOps == {"Mount", "SetEnabled", "ChangeFetchTraces"}

\* C1: once the poller is deactivated (enabled turned off, or unmounted), no
\* timer tick invokes the fetch operation any more, also when a fetch started
\* before the deactivation completes after it. Every tick names whether the
\* poller was active when it fired.
C1_NoFetchAfterDeactivation == op.name = "Tick" => op.active

\* C2: an effect run with enabled = true invokes the fetch exactly once in the
\* same step (so before any tick) and leaves a timer of period 10000 ms armed
\* in intervalRef; an effect run with enabled = false invokes no fetch and
\* arms no timer.
C2_Activation ==
    [][op'.name \in ActivationOps =>
          IF enabled'
          THEN /\ inflight' = inflight (+) SetToBag({[prev |-> lastTraceCountRef]})
               /\ BagCardinality(inflight') = BagCardinality(inflight) + 1
               /\ intervalRef' = [period3 |-> 3 * 10000, live |-> TRUE]
          ELSE /\ inflight' = inflight
               /\ ~intervalRef'.live
               /\ leaked' = leaked]_vars

C2_Witness ==
    /\ op.name = "SetEnabled"
    /\ Active
    /\ BagCardinality(inflight) = 1
    /\ intervalRef = [period3 |-> 3 * 10000, live |-> TRUE]

\* C3: a poll that completes with a count other than its previousCount sets
\* the stability counter to 0 and replaces the timer of intervalRef by one of
\* period exactly 10000 ms, whatever the period was.
C3_SnapBack ==
    [][op'.name = "FetchResolve" /\ op'.changed =>
          /\ consecutiveNoChangeRef' = 0
          /\ intervalRef' = [period3 |-> 3 * 10000, live |-> TRUE]
          /\ leaked' = leaked]_vars

C3_Witness ==
    /\ op.name = "FetchResolve"
    /\ op.changed
    /\ op.from = 3 * 30000
    /\ consecutiveNoChangeRef = 0
    /\ intervalRef = [period3 |-> 3 * 10000, live |-> TRUE]

\* Three times min(30000, 10000 * (1 + c / 3)) for c > 3, case by case
SlowPeriod3(c) == IF c = 4 THEN 70000 ELSE IF c = 5 THEN 80000 ELSE 90000

\* C4: a poll that completes with an unchanged count increments the stability
\* counter to c; when c > 3 the timer of intervalRef is replaced by one of
\* period min(30000, 10000 * (1 + c / 3)) ms, that is 70000/3 for c = 4,
\* 80000/3 for c = 5 and 30000 from c = 6 on; when c <= 3 the timer is not
\* touched.
C4_SlowDown ==
    [][op'.name = "FetchResolve" /\ ~op'.changed =>
          /\ consecutiveNoChangeRef' = consecutiveNoChangeRef + 1
          /\ leaked' = leaked
          /\ IF consecutiveNoChangeRef' > 3
             THEN intervalRef' = [period3 |-> SlowPeriod3(consecutiveNoChangeRef'),
                                  live |-> TRUE]
             ELSE intervalRef' = intervalRef]_vars

C4_Witness ==
    /\ op.name = "FetchResolve"
    /\ ~op.changed
    /\ consecutiveNoChangeRef = 5
    /\ op.from = 70000
    /\ intervalRef = [period3 |-> 80000, live |-> TRUE]

\* C5: every armed timer has a period of at least 10000 ms and at most
\* 30000 ms, and a poll that completes with an unchanged count never lowers
\* the period of the timer of intervalRef.
C5_PeriodRange ==
    /\ [](\A t \in BagToSet(Armed) : 3 * 10000 <= t.period3 /\ t.period3 <= 3 * 30000)
    /\ [][op'.name = "FetchResolve" /\ ~op'.changed =>
             intervalRef'.period3 >= intervalRef.period3]_vars

C5_Witness ==
    /\ op.name = "FetchResolve"
    /\ ~op.changed
    /\ consecutiveNoChangeRef = 7
    /\ op.from = 3 * 30000
    /\ intervalRef = [period3 |-> 3 * 30000, live |-> TRUE]

\* C6: a fetch that rejects leaves every timer as it was, armed with the same
\* period, and while the poller is active the timer of intervalRef is armed,
\* so the next tick still comes.
C6_RejectKeepsSchedule ==
    /\ [](Active => intervalRef.live)
    /\ [][op'.name = "FetchReject" =>
             intervalRef' = intervalRef /\ leaked' = leaked]_vars

C6_Witness ==
    /\ op.name = "FetchReject"
    /\ Active
    /\ inflight = EmptyBag
    /\ intervalRef.live
    /\ op.from = intervalRef.period3

\* C7: while the poller is active at most one fetch it started is in flight.
C7_NoOverlap == Active => BagCardinality(inflight) <= 1

\* =====================================================================
\* Properties of the flow graph builder (checked under SpecBuilder)
\* =====================================================================
Digit == <<"0", "1", "2", "3", "4", "5", "6", "7", "8", "9">>

\* The graph on display was built from the trace on display.
Built == trace # NoTrace /\ op.name \in {"FetchTraceResolve", "SelectStep"}

\* C8: for a step sequence of length N (N = 0 and an absent steps field
\* included) the graph has N nodes step-0 .. step-(N-1) in order and
\* max(0, N-1) edges, edge-i going from step-(i-1) to step-i for i in 1..N-1;
\* no edge enters step-0.
C8_Chain ==
    Built =>
        LET N == IF "steps" \in DOMAIN trace THEN Len(trace.steps) ELSE 0
        IN /\ Len(nodes) = N
           /\ \A i \in 0..(N - 1) : nodes[i + 1].id = "step-" \o Digit[i + 1]
           /\ Len(edges) = (IF N = 0 THEN 0 ELSE N - 1)
           /\ \A i \in 1..(N - 1) :
                 /\ edges[i].id = "edge-" \o Digit[i + 1]
                 /\ edges[i].source = "step-" \o Digit[i]
                 /\ edges[i].target = "step-" \o Digit[i + 1]
           /\ \A k \in 1..Len(edges) : edges[k].target # "step-0"

C8_Witness ==
    /\ Built
    /\ "steps" \in DOMAIN trace
    /\ Len(trace.steps) = 3
    /\ Len(nodes) = 3
    /\ Len(edges) = 2
    /\ edges[2].source = "step-1"
    /\ edges[2].target = "step-2"

\* The color the status of a step stands for
Red == "#ef4444"
Amber == "#f59e0b"
Blue == "#3b82f6"
Green == "#10b981"

ColorOfStep(step) ==
    IF "status" \notin DOMAIN step THEN Green
    ELSE CASE step.status = "error" -> Red
           [] step.status = "warning" -> Amber
           [] step.status = "partial" -> Blue
           [] OTHER -> Green

\* C9: the node of a step is tinted red for status 'error', amber for
\* 'warning', blue for 'partial' and green for any other status: 'success',
\* no status, 'Error', an unrecognized string.
C9_NodeColor ==
    Built =>
        \A i \in 1..Len(nodes) :
            LET c == ColorOfStep(trace.steps[i])
            IN /\ nodes[i].style.background =
                      "linear-gradient(135deg, " \o c \o "15 0%, " \o c \o "08 100%)"
               /\ nodes[i].style.border \in {"1.5px solid " \o c \o "40", "1.5px solid #818cf8"}

\* The statuses of the steps of the trace on display, "" for a step without one
StatusesOnDisplay ==
    IF trace # NoTrace /\ "steps" \in DOMAIN trace
    THEN [i \in 1..Len(trace.steps) |->
            IF "status" \in DOMAIN trace.steps[i] THEN trace.steps[i].status ELSE ""]
    ELSE <<>>

C9_Witness ==
    /\ Built
    /\ Len(nodes) = 3
    /\ StatusesOnDisplay = <<"error", "Error", "">>
    /\ nodes[1].style.border = "1.5px solid #ef444440"
    /\ nodes[2].style.border = "1.5px solid #10b98140"
    /\ nodes[3].style.border = "1.5px solid #10b98140"

\* C10: the stroke and the arrow marker of edge-i carry the color of the
\* status of step i, the step the edge enters.
C10_EdgeColor ==
    Built =>
        \A i \in 1..Len(edges) :
            LET c == ColorOfStep(trace.steps[i + 1])
            IN /\ edges[i].style.stroke = c \o "60"
               /\ edges[i].markerEnd.color = c \o "60"

C10_Witness ==
    /\ Built
    /\ Len(edges) = 2
    /\ StatusesOnDisplay = <<"error", "success", "warning">>
    /\ edges[1].style.stroke = "#10b98160"
    /\ edges[2].markerEnd.color = "#f59e0b60"

HighlightBorder == "1.5px solid #818cf8"
HighlightShadow == "0 4px 12px rgba(129, 140, 248, 0.2)"
DefaultShadow == "0 2px 8px rgba(0, 0, 0, 0.3)"

\* C11: in the graph built for a step sequence and a selected index s (op.sel,
\* the selectedStep of the render that built it), node step-i carries the
\* highlighted border and shadow if and only if i = s; every other node
\* carries the dimmer border in its status color and the default shadow, so
\* with s = null or s outside the sequence no node is highlighted.
C11_HighlightIffSelected ==
    Built =>
        \A i \in 1..Len(nodes) :
            IF i - 1 = op.sel
            THEN /\ nodes[i].style.border = HighlightBorder
                 /\ nodes[i].style.boxShadow = HighlightShadow
            ELSE /\ nodes[i].style.border =
                        "1.5px solid " \o ColorOfStep(trace.steps[i]) \o "40"
                 /\ nodes[i].style.boxShadow = DefaultShadow

\* The graph of a newly fetched two-step trace built with the selection (the
\* last step of the longer trace shown before) outside it: nothing highlighted.
C11_SelectionOutside ==
    /\ op.name = "FetchTraceResolve"
    /\ Len(nodes) = 2
    /\ op.sel = MaxSteps - 1
    /\ op.sel >= Len(nodes)
    /\ \A i \in 1..Len(nodes) : nodes[i].style.border # HighlightBorder

C11_Witness ==
    /\ Built
    /\ Len(nodes) = 3
    /\ op.sel = 1
    /\ nodes[1].style.boxShadow = DefaultShadow
    /\ nodes[2].style.border = HighlightBorder
    /\ nodes[2].style.boxShadow = HighlightShadow
    /\ nodes[3].style.boxShadow = DefaultShadow

\* C13: a rebuild after only the selected index changed (the [selectedStep]
\* effect on a trace with steps) leaves the edges, and of every node the id,
\* position, label, draggable flag and every style field but border and
\* boxShadow, as they were; a node differs at all only if it is the one the
\* previous build had selected or the newly selected one.
C13_ReselectFrame ==
    [][op'.name = "SelectStep" /\ trace # NoTrace /\ "steps" \in DOMAIN trace =>
          /\ edges' = edges
          /\ Len(nodes') = Len(nodes)
          /\ \A i \in 1..Len(nodes) :
                /\ nodes'[i].id = nodes[i].id
                /\ nodes'[i].position = nodes[i].position
                /\ nodes'[i].data = nodes[i].data
                /\ nodes'[i].draggable = nodes[i].draggable
                /\ \A k \in DOMAIN nodes[i].style \ {"border", "boxShadow"} :
                      nodes'[i].style[k] = nodes[i].style[k]
                /\ nodes'[i] # nodes[i] => i - 1 \in {op.sel, op'.sel}]_vars

\* The selection moved from step 0 to step 2 of a three-step trace: the
\* highlight left node step-0 and entered node step-2.
C13_Witness ==
    /\ op.name = "SelectStep"
    /\ op.sel = 2
    /\ Len(nodes) = 3
    /\ "steps" \in DOMAIN trace
    /\ trace.trace_id = "t1"
    /\ nodes[1].style.border # HighlightBorder
    /\ nodes[3].style.border = HighlightBorder

\* C15: a step without a status is colored as a successful one everywhere:
\* its node (and the edge entering it) is green, and its badge in the step
\* list has the style of the badge of a step with status 'success'.
C15_AbsentStatusAsSuccess ==
    Built =>
        \A i \in 1..Len(nodes) :
            "status" \notin DOMAIN trace.steps[i] =>
                /\ nodes[i].style.background =
                       "linear-gradient(135deg, #10b98115 0%, #10b98108 100%)"
                /\ i > 1 => edges[i - 1].style.stroke = "#10b98160"
                /\ StepListBadges(trace)[i] = getStatusBadge("success")

\* The viewer shows trace id as the backend stores it now.
UpToDate(id) ==
    /\ trace # NoTrace
    /\ trace.trace_id = id
    /\ StepsOrEmpty(trace) = backend[id]
    /\ Len(nodes) = Len(backend[id])

\* C16: when the step sequence of the selected trace changes on the backend
\* while the viewer shows that trace, then, unless another trace is selected,
\* the viewer eventually shows the graph of the changed step sequence.
C16_RebuildOnBackendChange ==
    \A id \in TraceIds :
        (traceId = id /\ trace # NoTrace /\ trace.trace_id = id /\ ~UpToDate(id))
            ~> (traceId # id \/ UpToDate(id))

\* C14: the dashboard's periodic trace-list fetches follow the adaptive
\* schedule: a tick that starts a fetch after more than 3 consecutive fetches
\* observed no change comes from a timer with a period above 10000 ms (and at
\* most 30000 ms).
C14_DashboardFetchesAdaptively ==
    op.name = "AppTick" /\ appStable > NoChangeThreshold =>
        /\ op.from > 3 * FastInterval
        /\ op.from <= 3 * MaxInterval

\* C17: the count a completed poll measured and stored is the number of trace
\* entries the trace list renders (for the traces array before or after the
\* fetch of that poll), so a list that grew is seen as a change.
C17_SignalIsRenderedCount ==
    [][op'.name = "FetchResolve" =>
          lastTraceCountRef' \in {Len(traces), Len(traces')}]_vars

\* =====================================================================
\* More properties of the adaptive poller (checked under Spec)
\* =====================================================================

\* C18: at any time at most one timer armed by the poller exists.
C18_OneTimer == BagCardinality(Armed) <= 1

\* C19: a completed poll whose measured count equals the count stored by the
\* previous completed poll (lastTraceCountRef before the step) increments the
\* stability counter by exactly 1, a completed poll with another count sets
\* it to 0, and the stored count becomes the measured one.
C19_CountsConsecutiveNoChange ==
    [][op'.name = "FetchResolve" =>
          IF lastTraceCountRef' = lastTraceCountRef
          THEN consecutiveNoChangeRef' = consecutiveNoChangeRef + 1
          ELSE consecutiveNoChangeRef' = 0]_vars

\* C20: an activation starts with the stability counter and the stored last
\* count at 0.
C20_ActivationResetsStability ==
    [][op'.name \in ActivationOps /\ enabled' =>
          consecutiveNoChangeRef' = 0 /\ lastTraceCountRef' = 0]_vars

\* =====================================================================
\* Properties of the trace viewer under concurrent fetches and selections
\* (checked under SpecViewer)
\* =====================================================================

\* C23: when the responses of two fetches that were in flight together have
\* both arrived and no fetch is left, the trace on display is the one of the
\* currently selected trace id, and the graph is the graph of its steps.
C23_LastSelectedWins ==
    [][/\ op.name = "FetchTraceResolve"
       /\ op'.name = "FetchTraceResolve"
       /\ traceFetches' = {}
       => /\ trace'.trace_id = traceId'
          /\ Len(nodes') = Len(StepsOrEmpty(trace'))]_vars

\* The nodes of the graph on display that carry the highlight, as 0-based
\* step indices
Highlighted == {i \in 0..(Len(nodes) - 1) : nodes[i + 1].style.border = HighlightBorder}

\* C24: whenever no trace fetch is in flight and a trace is on display, the
\* highlighted node is the one at selectedStep (none when selectedStep is
\* null or beyond the graph).
C24_HighlightFollowsSelection ==
    traceFetches = {} /\ trace # NoTrace =>
        Highlighted = {i \in 0..(Len(nodes) - 1) : i = selectedStep}

\* C25: selectedStep is null or an index into the steps of the trace on
\* display.
C25_SelectionInRange ==
    selectedStep = NoStep
        \/ (trace # NoTrace /\ selectedStep \in 0..(Len(StepsOrEmpty(trace)) - 1))

\* =====================================================================
\* Failed polls and the long run of the poller (checked under Spec, SpecLive)
\* =====================================================================

\* C22: a poll whose fetch fails changes nothing in the poller's state: both
\* of its steps, the start by a timer tick and the rejection of the fetch,
\* leave the stability counter, the stored last count, the timer intervalRef
\* names (armed or not, and its period) and every other armed timer as they
\* were.
C22_FailedPollChangesNothing ==
    [][op'.name \in {"Tick", "FetchReject"} =>
          /\ consecutiveNoChangeRef' = consecutiveNoChangeRef
          /\ lastTraceCountRef' = lastTraceCountRef
          /\ intervalRef' = intervalRef
          /\ Armed' = Armed]_vars

\* A fetch failed while the poller had slowed down to 80000/3 ms after five
\* polls without change of the count 1.
C22_Witness ==
    /\ op.name = "FetchReject"
    /\ Active
    /\ consecutiveNoChangeRef = 5
    /\ lastTraceCountRef = 1
    /\ intervalRef = [period3 |-> 80000, live |-> TRUE]

SlowestTimer == [period3 |-> 3 * 30000, live |-> TRUE]

\* C21: with the poller left active and fetches completing again and again,
\* if the measured count stays at one value k from some time on, then the
\* timer of intervalRef ends up armed with the 30000 ms period and stays so;
\* a poll without change that brings the stability counter to 6 or more arms
\* that period, and the period is left only by a poll that observes a change.
C21_ReachesAndKeepsSlowTier ==
    /\ \A k \in 0..MaxCount :
          <>[](lastTraceCountRef = k) => <>[](intervalRef = SlowestTimer)
    /\ [][op'.name = "FetchResolve" /\ ~op'.changed /\ consecutiveNoChangeRef' >= 6 =>
             intervalRef' = SlowestTimer]_vars
    /\ [][intervalRef = SlowestTimer /\ ~(op'.name = "FetchResolve" /\ op'.changed) =>
             intervalRef' = SlowestTimer]_vars

\* The poll that brought the stability counter to 6 has armed the 30000 ms
\* timer in place of the 80000/3 ms one.
C21_Witness ==
    /\ Active
    /\ op.name = "FetchResolve"
    /\ ~op.changed
    /\ consecutiveNoChangeRef = 6
    /\ op.from = 80000
    /\ intervalRef = SlowestTimer

====
